---- MODULE Spec2Model ----
(***************************************************************************)
(* Model of percache.Cache (src/percache.py): a persistent memoization     *)
(* cache on top of a shelve file.                                          *)
(*                                                                         *)
(* Byte strings are sequences of one-character strings.  The SHA-1 hex     *)
(* digest is modelled as a collision-free tag around the hashed bytes: a   *)
(* digest is the pair <<"sha1", bytes>>, and the shelf key                 *)
(* "<digest>:atime" is the triple <<"sha1", bytes, ":atime">> (a hex       *)
(* digest holds no ':' so the suffix is always recognisable).              *)
(* time.time() reads the clock variable now, which only moves forward.     *)
(* The shelf is opened without writeback, so the variable cache is the     *)
(* content of the shelf file as seen through the handle.  Operations on a  *)
(* closed shelf raise before touching the file, so the operations are      *)
(* enabled only while the shelf is open.                                   *)
(*                                                                         *)
(* Spec runs each operation of the Cache as one step, in one thread.       *)
(* SpecKey applies the key derivation to pairs of calls.  SpecSteps runs   *)
(* wrapper and clear one statement at a time in one thread, SpecThreads    *)
(* does so in two threads that interleave between statements.              *)
(***************************************************************************)
EXTENDS Integers, Sequences, FiniteSets, TLC

VARIABLES cache, opened, now, owner, last, kin, kout, thr, overlap

vars == <<cache, opened, now, owner, last, kin, kout, thr, overlap>>

\* ------------------------------------------------------------------ bounds
MaxTime == 2
MaxAge == 2
MaxArgs == 2
MaxKw == 2

\* ------------------------------------------------------------ input values
None == "None"
Raise == "Raise"
\* the arguments on which the representation function raises (-1 stands for
\* an object whose __repr__ raises)
BadArgs == {-1}

\* the callables that get decorated: identity and __name__
Callables ==
  { [id |-> "f",  name |-> <<"f">>],
    [id |-> "f1", name |-> <<"f", "1">>],
    [id |-> "g",  name |-> <<"f">>] }

Fn(i) == CHOOSE c \in Callables : c.id = i

ArgVals == {1, 2, 12}
KwNames == {<<"a">>, <<"b">>}
KwVals == {1}
Results == {"r1", "r2"}

\* ---------------------------------------------------------- byte strings
Digit(d) == <<"0", "1", "2", "3", "4", "5", "6", "7", "8", "9">>[d + 1]

RECURSIVE repr(_)
repr(n) == IF n < 10 THEN <<Digit(n)>> ELSE repr(n \div 10) \o <<Digit(n % 10)>>

Ord(ch) == CASE ch = ":" -> 58 [] ch = "a" -> 97 [] ch = "b" -> 98
             [] ch = "f" -> 102 [] ch = "g" -> 103 [] OTHER -> 48

RECURSIVE StrLess(_, _)
StrLess(s, t) ==
  IF t = <<>> THEN FALSE
  ELSE IF s = <<>> THEN TRUE
  ELSE IF Ord(Head(s)) # Ord(Head(t)) THEN Ord(Head(s)) < Ord(Head(t))
  ELSE StrLess(Tail(s), Tail(t))

\* keyword arguments arrive as a sequence of <<name, value>> pairs with
\* distinct names, in the order the caller wrote them
KwDict(kwargs) == { kwargs[i] : i \in DOMAIN kwargs }
KwNamesOf(kwargs) == { kwargs[i][1] : i \in DOMAIN kwargs }
KwGet(kwargs, k) == (CHOOSE p \in KwDict(kwargs) : p[1] = k)[2]

RECURSIVE SortSet(_)
SortSet(S) ==
  IF S = {} THEN <<>>
  ELSE LET m == CHOOSE x \in S : \A y \in S \ {x} : StrLess(x, y)
       IN <<m>> \o SortSet(S \ {m})

sortedMut_unsorted(kwargs) == [i \in DOMAIN kwargs |-> kwargs[i][1]]
sorted(kwargs) == SortSet(KwNamesOf(kwargs))

RECURSIVE UpdateArgs(_, _)
UpdateArgs(h, args) ==
  IF args = <<>> THEN h ELSE UpdateArgs(h \o repr(Head(args)), Tail(args))

RECURSIVE UpdateKwargs(_, _, _)
UpdateKwargs(h, names, kwargs) ==
  IF names = <<>> THEN h
  ELSE UpdateKwargs(h \o Head(names) \o <<":">> \o repr(KwGet(kwargs, Head(names))),
                    Tail(names), kwargs)

hexdigest(h) == <<"sha1", h>>

\* the key of a call: [fn |-> callable id, args |-> seq, kwargs |-> seq of pairs]
ckey(call) ==
  hexdigest(UpdateKwargs(UpdateArgs(Fn(call.fn).name, call.args),
                         sorted(call.kwargs), call.kwargs))

atime(k) == <<k[1], k[2], ":atime">>
endswith_atime(key) == Len(key) = 3 /\ key[3] = ":atime"
rsplit(key) == <<key[1], key[2]>>

\* ------------------------------------------------------------------ shelf
EmptyShelf == [x \in {} |-> 0]
Put(c, k, v) == [x \in DOMAIN c \cup {k} |-> IF x = k THEN v ELSE c[x]]
Del(c, k) == [x \in DOMAIN c \ {k} |-> c[x]]

\* ------------------------------------------------------ Cache.check.wrapper
\* the call as the cache identifies its author: callable, positional
\* arguments, keyword arguments as a mapping
Sig(call) == [fn |-> call.fn, args |-> call.args, kwargs |-> KwDict(call.kwargs)]

\* the representation function raises on some argument of the call, so the
\* key derivation (lines 42-45) raises before the shelf is looked at
ReprRaises(call) ==
  \/ \E i \in DOMAIN call.args : call.args[i] \in BadArgs
  \/ \E i \in DOMAIN call.kwargs : call.kwargs[i][2] \in BadArgs

KeyFailure(c) ==
  [key |-> <<>>, cache |-> c, result |-> Raise, invoked |-> FALSE,
   outcome |-> "reprfail", writes |-> <<>>]

\* fres is what fn(*args, **kwargs) would do if it were invoked now: a result
\* or Raise
wrapperMut_nostore(c, call, t, fres) ==
  IF ReprRaises(call) THEN KeyFailure(c) ELSE
  LET k == ckey(call)
  IN IF k \in DOMAIN c
     THEN [key |-> k, cache |-> Put(c, atime(k), t), result |-> c[k], invoked |-> FALSE,
           outcome |-> "hit", writes |-> <<atime(k)>>]
     ELSE IF fres = Raise
     THEN [key |-> k, cache |-> c, result |-> Raise, invoked |-> TRUE,
           outcome |-> "raised", writes |-> <<>>]
     ELSE [key |-> k, cache |-> Put(c, atime(k), t), result |-> fres,
           invoked |-> TRUE, outcome |-> "miss", writes |-> <<atime(k)>>]

wrapperMut_swallow(c, call, t, fres) ==
  LET k == IF ReprRaises(call) THEN hexdigest(Fn(call.fn).name) ELSE ckey(call)
  IN IF k \in DOMAIN c
     THEN [key |-> k, cache |-> Put(c, atime(k), t), result |-> c[k], invoked |-> FALSE,
           outcome |-> "hit", writes |-> <<atime(k)>>]
     ELSE IF fres = Raise
     THEN [key |-> k, cache |-> c, result |-> Raise, invoked |-> TRUE,
           outcome |-> "raised", writes |-> <<>>]
     ELSE [key |-> k, cache |-> Put(Put(c, k, fres), atime(k), t), result |-> fres,
           invoked |-> TRUE, outcome |-> "miss", writes |-> <<k, atime(k)>>]

wrapperMut_recompute(c, call, t, fres) ==
  IF ReprRaises(call) THEN KeyFailure(c) ELSE
  LET k == ckey(call)
  IN IF fres = Raise
     THEN [key |-> k, cache |-> c, result |-> Raise, invoked |-> TRUE,
           outcome |-> "raised", writes |-> <<>>]
     ELSE [key |-> k, cache |-> Put(Put(c, k, fres), atime(k), t), result |-> fres,
           invoked |-> TRUE, outcome |-> "miss", writes |-> <<k, atime(k)>>]

wrapperMut_finally(c, call, t, fres) ==
  IF ReprRaises(call) THEN KeyFailure(c) ELSE
  LET k == ckey(call)
  IN IF k \in DOMAIN c
     THEN [key |-> k, cache |-> Put(c, atime(k), t), result |-> c[k], invoked |-> FALSE,
           outcome |-> "hit", writes |-> <<atime(k)>>]
     ELSE IF fres = Raise
     THEN [key |-> k, cache |-> Put(c, atime(k), t), result |-> Raise, invoked |-> TRUE,
           outcome |-> "raised", writes |-> <<atime(k)>>]
     ELSE [key |-> k, cache |-> Put(Put(c, k, fres), atime(k), t), result |-> fres,
           invoked |-> TRUE, outcome |-> "miss", writes |-> <<k, atime(k)>>]

wrapperMut_missonly(c, call, t, fres) ==
  IF ReprRaises(call) THEN KeyFailure(c) ELSE
  LET k == ckey(call)
  IN IF k \in DOMAIN c
     THEN [key |-> k, cache |-> c, result |-> c[k], invoked |-> FALSE,
           outcome |-> "hit", writes |-> <<>>]
     ELSE IF fres = Raise
     THEN [key |-> k, cache |-> c, result |-> Raise, invoked |-> TRUE,
           outcome |-> "raised", writes |-> <<>>]
     ELSE [key |-> k, cache |-> Put(Put(c, k, fres), atime(k), t), result |-> fres,
           invoked |-> TRUE, outcome |-> "miss", writes |-> <<k, atime(k)>>]

wrapper(c, call, t, fres) ==
  IF ReprRaises(call) THEN KeyFailure(c) ELSE
  LET k == ckey(call)
  IN IF k \in DOMAIN c
     THEN [key |-> k, cache |-> Put(c, atime(k), t), result |-> c[k], invoked |-> FALSE,
           outcome |-> "hit", writes |-> <<atime(k)>>]
     ELSE IF fres = Raise
     THEN [key |-> k, cache |-> c, result |-> Raise, invoked |-> TRUE,
           outcome |-> "raised", writes |-> <<>>]
     ELSE [key |-> k, cache |-> Put(Put(c, k, fres), atime(k), t), result |-> fres,
           invoked |-> TRUE, outcome |-> "miss", writes |-> <<k, atime(k)>>]

\* ------------------------------------------------------------- Cache.clear
AtimeKeys(c) == { key \in DOMAIN c : endswith_atime(key) }
Orders(S) ==
  { s \in [1..Cardinality(S) -> S] : \A i, j \in DOMAIN s : i # j => s[i] # s[j] }

RECURSIVE SeqOf(_)
SeqOf(S) ==
  IF S = {} THEN <<>>
  ELSE LET x == CHOOSE y \in S : TRUE IN <<x>> \o SeqOf(S \ {x})

\* the orders in which "for key in self.__cache" may yield the keys: the
\* ':atime' keys in any order; the other keys fail the endswith test and add
\* nothing to a scan wherever they come, so they are put last in one order
ShelfOrders(c) ==
  { s \o SeqOf(DOMAIN c \ AtimeKeys(c)) : s \in Orders(AtimeKeys(c)) }

StaleMut_reversed(ts, bigbang) == ts > bigbang
StaleMut_inclusive(ts, bigbang) == ts <= bigbang
Stale(ts, bigbang) == ts < bigbang

RECURSIVE OutdatedMut_atimeonly(_, _, _)
OutdatedMut_atimeonly(c, order, bigbang) ==
  IF order = <<>> THEN <<>>
  ELSE LET key == Head(order)
       IN (IF endswith_atime(key) /\ Stale(c[key], bigbang)
           THEN <<key>> ELSE <<>>)
          \o OutdatedMut_atimeonly(c, Tail(order), bigbang)

RECURSIVE OutdatedMut_valuefirst(_, _, _)
OutdatedMut_valuefirst(c, order, bigbang) ==
  IF order = <<>> THEN <<>>
  ELSE LET key == Head(order)
       IN (IF endswith_atime(key) /\ Stale(c[key], bigbang)
           THEN <<rsplit(key), key>> ELSE <<>>)
          \o OutdatedMut_valuefirst(c, Tail(order), bigbang)

RECURSIVE Outdated(_, _, _)
Outdated(c, order, bigbang) ==
  IF order = <<>> THEN <<>>
  ELSE LET key == Head(order)
       IN (IF endswith_atime(key) /\ Stale(c[key], bigbang)
           THEN <<key, rsplit(key)>> ELSE <<>>)
          \o Outdated(c, Tail(order), bigbang)

\* del self.__cache[key] for each key in turn; a missing key raises KeyError
\* and leaves the keys deleted so far deleted
RECURSIVE DelAll(_, _)
DelAll(c, keys) ==
  IF keys = <<>> THEN [cache |-> c, outcome |-> "ok"]
  ELSE IF Head(keys) \notin DOMAIN c THEN [cache |-> c, outcome |-> "KeyError"]
  ELSE DelAll(Del(c, Head(keys)), Tail(keys))

clearMut_emptyraises(c, maxage, t, order) ==
  IF maxage > 0
  THEN IF AtimeKeys(c) = {}
       THEN [cache |-> c, outcome |-> "KeyError"]
       ELSE DelAll(c, Outdated(c, order, t - maxage))
  ELSE [cache |-> EmptyShelf, outcome |-> "ok"]

clearMut_nonneg(c, maxage, t, order) ==
  IF maxage >= 0
  THEN DelAll(c, Outdated(c, order, t - maxage))
  ELSE [cache |-> EmptyShelf, outcome |-> "ok"]

clear(c, maxage, t, order) ==
  IF maxage > 0
  THEN DelAll(c, Outdated(c, order, t - maxage))
  ELSE [cache |-> EmptyShelf, outcome |-> "ok"]

\* ------------------------------------------------------------ Cache._stats
Min2(a, b) == IF a <= b THEN a ELSE b
Max2(a, b) == IF a >= b THEN a ELSE b

RECURSIVE StatsLoopMut_allkeys(_, _, _)
StatsLoopMut_allkeys(c, order, acc) ==
  IF order = <<>> THEN acc
  ELSE LET key == Head(order)
       IN StatsLoopMut_allkeys(c, Tail(order),
            IF endswith_atime(key)
            THEN [num |-> acc.num + 1, oldest |-> Min2(acc.oldest, c[key]),
                  newest |-> Max2(acc.newest, c[key])]
            ELSE [acc EXCEPT !.num = acc.num + 1])

RECURSIVE StatsLoop(_, _, _)
StatsLoop(c, order, acc) ==
  IF order = <<>> THEN acc
  ELSE LET key == Head(order)
       IN StatsLoop(c, Tail(order),
            IF endswith_atime(key)
            THEN [num |-> acc.num + 1, oldest |-> Min2(acc.oldest, c[key]),
                  newest |-> Max2(acc.newest, c[key])]
            ELSE acc)

statsMut_oldestzero(c, t, order) ==
  StatsLoop(c, order, [num |-> 0, oldest |-> 0, newest |-> 0])

stats(c, t, order) == StatsLoop(c, order, [num |-> 0, oldest |-> t, newest |-> 0])

\* ------------------------------------------------- Cache.__init__ and close
shelve_openMut_new(c) == EmptyShelf
shelve_open(c) == c

\* ------------------------------------------------------------------ state
\* last describes the operation that was just completed: what was called and
\* what the caller observed (before: the timestamp the called key had, -1 if
\* none; deleted: the shelf keys a clear removed; evicted: the called key was
\* removed by the clear that ran just before the call)
NoStats == [num |-> 0, oldest |-> 0, newest |-> 0]
NoCall == [fn |-> None, args |-> <<>>, kwargs |-> <<>>]
Idle == [op |-> "init", call |-> NoCall, key |-> <<>>, outcome |-> "ok",
         result |-> None, invoked |-> FALSE, writes |-> <<>>, maxage |-> 0,
         deleted |-> {}, before |-> -1, evicted |-> FALSE, stats |-> NoStats]

\* history of the misses: for each digest in the shelf, the call that stored
\* its value (by) and the value it stored (v)
OwnerOf(o, c) == [k \in DOMAIN o \cap DOMAIN c |-> o[k]]

\* the threads of the process that use the cache, and what a thread holds
\* while it is inside wrapper or clear: the line it is about to run (pc) and
\* its local variables (raced notes that the thread invoked the callable while
\* another thread was between its own miss and its return on the same key)
Threads == {1, 2}
Resting == [pc |-> "idle", op |-> None, call |-> NoCall, key |-> <<>>,
            fres |-> None, result |-> None, invoked |-> FALSE, raced |-> FALSE,
            outcome |-> None, maxage |-> 0, bigbang |-> 0,
            scan |-> <<>>, outdated |-> <<>>]

\* the calls the clients of the cache make
Workload ==
  { [fn |-> "f",  args |-> <<12>>, kwargs |-> <<>>],
    [fn |-> "f1", args |-> <<2>>,  kwargs |-> <<>>],
    [fn |-> "g",  args |-> <<12>>, kwargs |-> <<>>],
    [fn |-> "f",  args |-> <<2>>,  kwargs |-> <<>>],
    [fn |-> "f",  args |-> <<>>,   kwargs |-> <<<<<<"a">>, 1>>, <<<<"b">>, 1>>>>],
    [fn |-> "f",  args |-> <<>>,   kwargs |-> <<<<<<"b">>, 1>>, <<<<"a">>, 1>>>>],
    [fn |-> "f",  args |-> <<-1>>, kwargs |-> <<>>],
    [fn |-> "f",  args |-> <<>>,   kwargs |-> <<<<<<"a">>, -1>>>>] }

MaxAges == -1..MaxAge

Init ==
  /\ cache = EmptyShelf
  /\ opened = TRUE
  /\ now = 0
  /\ owner = EmptyShelf
  /\ last = Idle
  /\ kin = <<>>
  /\ kout = <<>>
  /\ thr = [t \in Threads |-> Resting]
  /\ overlap = FALSE

Call ==
  /\ opened
  /\ \E call \in Workload, fres \in Results \cup {Raise} :
     \E r \in {wrapper(cache, call, now, fres)} :
          /\ cache' = r.cache
          /\ owner' = IF r.outcome = "miss"
                      THEN Put(OwnerOf(owner, r.cache), r.key,
                               [by |-> Sig(call), v |-> r.result])
                      ELSE OwnerOf(owner, r.cache)
          /\ last' = [Idle EXCEPT !.op = "call", !.call = call,
                        !.key = r.key, !.outcome = r.outcome,
                        !.result = r.result, !.invoked = r.invoked,
                        !.writes = r.writes,
                        !.before = IF r.outcome # "reprfail"
                                      /\ atime(r.key) \in DOMAIN cache
                                   THEN cache[atime(r.key)] ELSE -1,
                        !.evicted = (last.op = "clear" /\ r.key \in last.deleted)]
  /\ UNCHANGED <<opened, now, kin, kout, thr, overlap>>

Clear ==
  /\ opened
  /\ \E maxage \in MaxAges :
     \E order \in (IF maxage > 0 THEN ShelfOrders(cache) ELSE {<<>>}) :
     \E r \in {clear(cache, maxage, now, order)} :
          /\ cache' = r.cache
          /\ owner' = OwnerOf(owner, r.cache)
          /\ last' = [Idle EXCEPT !.op = "clear", !.maxage = maxage,
                        !.outcome = r.outcome,
                        !.deleted = DOMAIN cache \ DOMAIN r.cache]
  /\ UNCHANGED <<opened, now, kin, kout, thr, overlap>>

Stats ==
  /\ opened
  /\ \E order \in ShelfOrders(cache) :
       last' = [Idle EXCEPT !.op = "stats", !.stats = stats(cache, now, order)]
  /\ UNCHANGED <<cache, opened, now, owner, kin, kout, thr, overlap>>

Close ==
  /\ opened
  /\ opened' = FALSE
  /\ last' = [Idle EXCEPT !.op = "close"]
  /\ UNCHANGED <<cache, now, owner, kin, kout, thr, overlap>>

Open ==
  /\ ~opened
  /\ opened' = TRUE
  /\ cache' = shelve_open(cache)
  /\ owner' = OwnerOf(owner, cache')
  /\ last' = [Idle EXCEPT !.op = "open"]
  /\ UNCHANGED <<now, kin, kout, thr, overlap>>

Tick ==
  /\ now < MaxTime
  /\ now' = now + 1
  /\ last' = [Idle EXCEPT !.op = "tick"]
  /\ UNCHANGED <<cache, opened, owner, kin, kout, thr, overlap>>

Next == Call \/ Clear \/ Stats \/ Close \/ Open \/ Tick

Spec == Init /\ [][Next]_vars

TypeOK ==
  /\ opened \in BOOLEAN
  /\ now \in 0..MaxTime
  /\ last.op \in {"init", "call", "clear", "stats", "close", "open", "tick"}

\* --------------------------------------------- key derivation on its own
\* two calls are drawn and the wrapper's key derivation is applied to both
SeqsUpTo(S, n) == UNION { [1..m -> S] : m \in 0..n }
KwSeqs ==
  { s \in SeqsUpTo(KwNames \X KwVals, MaxKw) :
      \A i, j \in DOMAIN s : i # j => s[i][1] # s[j][1] }
Inputs ==
  [fn : { c.id : c \in Callables }, args : SeqsUpTo(ArgVals, MaxArgs), kwargs : KwSeqs]

InitKey ==
  /\ cache = EmptyShelf
  /\ opened = TRUE
  /\ now = 0
  /\ owner = EmptyShelf
  /\ last = Idle
  /\ kin \in Inputs \X Inputs
  /\ kout = <<>>
  /\ thr = [t \in Threads |-> Resting]
  /\ overlap = FALSE

DeriveKeys ==
  /\ kout = <<>>
  /\ kout' = <<ckey(kin[1]), ckey(kin[2])>>
  /\ UNCHANGED <<cache, opened, now, owner, last, kin, thr, overlap>>

NextKey == DeriveKeys

SpecKey == InitKey /\ [][NextKey]_vars

\* ------------------------------------------------------------- properties
Digests(c) == { key \in DOMAIN c : ~endswith_atime(key) }

\* C1: a call whose key holds a value stored by an earlier miss of the same
\* callable and arguments, not removed since, is a hit: it returns that value
\* and does not invoke the callable.
HitAvoidsRecomputation ==
  [][ (/\ last'.op = "call"
       /\ last'.key \in DOMAIN owner
       /\ owner[last'.key].by = Sig(last'.call))
      => (/\ last'.outcome = "hit"
          /\ ~last'.invoked
          /\ last'.result = owner[last'.key].v
          /\ owner'[last'.key] = owner[last'.key]) ]_vars

HitAvoidsRecomputationSeen ==
  /\ last.op = "call"
  /\ last.outcome = "hit"
  /\ ~last.invoked
  /\ owner[last.key].by = Sig(last.call)
  /\ last.result = owner[last.key].v
  /\ last.result \in Results

\* C2: after every completed operation a value entry K is in the shelf
\* exactly when the timestamp entry K:atime is.
PairingInvariant ==
  /\ \A k \in Digests(cache) : atime(k) \in DOMAIN cache
  /\ \A key \in AtimeKeys(cache) : rsplit(key) \in DOMAIN cache

PairingInvariantSeen ==
  /\ last.op = "clear"
  /\ last.maxage > 0
  /\ last.deleted # {}
  /\ Digests(cache) # {}
  /\ \A k \in Digests(cache) : atime(k) \in DOMAIN cache

\* C3: a call that is served from the shelf returns a value that was stored
\* by a call of the same callable with the same arguments.
ReturnsOwnResult ==
  (last.op = "call" /\ last.outcome = "hit")
    => owner[last.key].by = Sig(last.call)

\* C4: a miss whose callable raises propagates the failure and leaves the
\* shelf as it was: no value entry and no timestamp entry is written.
FailingMissLeavesStore ==
  [][ (last'.op = "call" /\ last'.outcome = "raised")
      => (/\ last'.result = Raise
          /\ last'.writes = <<>>
          /\ cache' = cache
          /\ last'.key \notin DOMAIN cache'
          /\ atime(last'.key) \notin DOMAIN cache') ]_vars

FailingMissLeavesStoreSeen ==
  /\ last.op = "call"
  /\ last.outcome = "raised"
  /\ last.invoked
  /\ last.key \notin DOMAIN cache
  /\ atime(last.key) \notin DOMAIN cache
  /\ DOMAIN cache # {}

\* C5: clear(maxage) with maxage > 0 at time now removes the value and the
\* timestamp of exactly the keys whose timestamp is < now - maxage; a
\* timestamp equal to now - maxage is kept, and what is kept is unchanged.
EvictionExact ==
  [][ (last'.op = "clear" /\ last'.maxage > 0)
      => LET cutoff == now - last'.maxage
             gone == { k \in Digests(cache) :
                         atime(k) \in DOMAIN cache /\ cache[atime(k)] < cutoff }
         IN /\ last'.outcome = "ok"
            /\ DOMAIN cache' = DOMAIN cache \ (gone \cup { atime(k) : k \in gone })
            /\ \A key \in DOMAIN cache' : cache'[key] = cache[key] ]_vars

EvictionExactSeen ==
  /\ last.op = "clear"
  /\ last.maxage > 0
  /\ last.deleted # {}
  /\ \E key \in AtimeKeys(cache) : cache[key] = now - last.maxage
  /\ \E key \in AtimeKeys(cache) : cache[key] > now - last.maxage

\* C6: clear with no threshold or a threshold <= 0 empties the shelf, and a
\* _stats that follows reports a count of zero.
FullClear ==
  [][ /\ (last'.op = "clear" /\ last'.maxage <= 0)
           => (cache' = EmptyShelf /\ last'.outcome = "ok")
      /\ (last.op = "clear" /\ last.maxage <= 0 /\ last'.op = "stats")
           => last'.stats.num = 0 ]_vars

FullClearSeen ==
  /\ last.op = "clear"
  /\ last.maxage < 0
  /\ Cardinality(last.deleted) >= 4
  /\ cache = EmptyShelf

\* C7: a call that returns (hit or miss) writes the current time to the
\* timestamp of its key as its last shelf write, and the timestamp does not
\* go down.
TimestampRefresh ==
  [][ (last'.op = "call" /\ last'.outcome \in {"hit", "miss"})
      => LET a == atime(last'.key)
         IN /\ a \in DOMAIN cache'
            /\ cache'[a] = now
            /\ last'.writes # <<>>
            /\ last'.writes[Len(last'.writes)] = a
            /\ (a \in DOMAIN cache => cache'[a] >= cache[a]) ]_vars

TimestampRefreshSeen ==
  /\ last.op = "call"
  /\ last.outcome = "hit"
  /\ last.before >= 0
  /\ last.before < now
  /\ cache[atime(last.key)] = now

\* C8: close followed by a new Cache on the same file keeps every value and
\* timestamp entry, so a call with cached arguments right after is a hit that
\* returns the stored value without invoking the callable.
PersistenceAcrossRestart ==
  [][ /\ (last'.op \in {"close", "open"}) => (cache' = cache /\ owner' = owner)
      /\ (last.op = "open" /\ last'.op = "call" /\ last'.key \in DOMAIN cache)
           => (/\ last'.outcome = "hit"
               /\ ~last'.invoked
               /\ last'.result = cache[last'.key]) ]_vars

PersistenceAcrossRestartSeen ==
  /\ last.op = "open"
  /\ opened
  /\ Digests(cache) # {}
  /\ \A k \in Digests(cache) : k \in DOMAIN owner /\ cache[k] = owner[k].v

\* C9: two calls with the same callable name, the same positional arguments
\* and the same keyword arguments get the same key, whatever the order the
\* keyword arguments were written in.
SameArguments(a, b) ==
  /\ Fn(a.fn).name = Fn(b.fn).name
  /\ a.args = b.args
  /\ KwDict(a.kwargs) = KwDict(b.kwargs)

KeyDeterminism ==
  (kout # <<>> /\ SameArguments(kin[1], kin[2])) => kout[1] = kout[2]

KeyDeterminismSeen ==
  /\ kout # <<>>
  /\ SameArguments(kin[1], kin[2])
  /\ kin[1].kwargs # kin[2].kwargs
  /\ kout[1] = kout[2]

\* C10: two calls of one callable whose arguments the representation
\* function tells apart (other representation of a positional argument,
\* other number or split of positional arguments, other keyword names or
\* values, positional against keyword) get different keys.
Reprs(args) == [i \in DOMAIN args |-> repr(args[i])]
KwReprs(kwargs) == { <<kwargs[i][1], repr(kwargs[i][2])>> : i \in DOMAIN kwargs }
Distinguishes(a, b) ==
  /\ a.fn = b.fn
  /\ \/ Reprs(a.args) # Reprs(b.args)
     \/ KwReprs(a.kwargs) # KwReprs(b.kwargs)

KeySensitivity ==
  (kout # <<>> /\ Distinguishes(kin[1], kin[2])) => kout[1] # kout[2]

\* C11: the count _stats returns is the number of cached results in the
\* shelf: the keys stored by a miss that returned and not removed since.
StatsCount ==
  [][ last'.op = "stats"
      => (/\ last'.stats.num = Cardinality(DOMAIN owner)
          /\ last'.stats.num = Cardinality(Digests(cache))) ]_vars

StatsCountSeen ==
  /\ last.op = "stats"
  /\ last.stats.num = 2
  /\ Cardinality(DOMAIN owner) = 2
  /\ Cardinality(DOMAIN cache) = 4

\* C12: with at least one timestamp in the shelf, _stats returns the least
\* stored timestamp as oldest and the greatest as newest, so oldest <= newest;
\* _stats changes no shelf entry.
StatsExtremes ==
  [][ last'.op = "stats"
      => (/\ cache' = cache
          /\ AtimeKeys(cache) # {}
               => LET ts == { cache[key] : key \in AtimeKeys(cache) }
                  IN /\ last'.stats.oldest \in ts
                     /\ \A x \in ts : last'.stats.oldest <= x
                     /\ last'.stats.newest \in ts
                     /\ \A x \in ts : last'.stats.newest >= x
                     /\ last'.stats.oldest <= last'.stats.newest) ]_vars

StatsExtremesSeen ==
  /\ last.op = "stats"
  /\ last.stats.num >= 2
  /\ 0 < last.stats.oldest
  /\ last.stats.oldest < last.stats.newest

\* C13: an entry whose latest call was at time t (every returning call stamps
\* its key with the current time) survives, unchanged, every clear(maxage)
\* run at a time now with now - t <= maxage, and a call with its key after
\* that clear is a hit that returns the stored value without recomputation.
RecentUseProtects ==
  [][ /\ (last'.op = "call" /\ last'.outcome \in {"hit", "miss"})
           => cache'[atime(last'.key)] = now
      /\ (last'.op = "clear" /\ last'.maxage > 0)
           => \A k \in Digests(cache) :
                (atime(k) \in DOMAIN cache /\ now - cache[atime(k)] <= last'.maxage)
                  => (/\ k \in DOMAIN cache'
                      /\ atime(k) \in DOMAIN cache'
                      /\ cache'[k] = cache[k]
                      /\ cache'[atime(k)] = cache[atime(k)])
      /\ (last.op = "clear" /\ last.maxage > 0 /\ last'.op = "call"
            /\ last'.key \in DOMAIN cache)
           => (/\ last'.outcome = "hit"
               /\ ~last'.invoked
               /\ last'.result = cache[last'.key]) ]_vars

RecentUseProtectsSeen ==
  /\ last.op = "clear"
  /\ last.maxage = 1
  /\ last.deleted # {}
  /\ \E k \in Digests(cache) :
       /\ atime(k) \in DOMAIN cache
       /\ now - cache[atime(k)] = last.maxage
       /\ owner[k].v = cache[k]

\* C14: a wrapped call with key K deletes nothing, leaves the value and the
\* timestamp of every other key as they were, writes the value of K only on
\* a miss and never overwrites a value K already has.
CallFrame ==
  [][ last'.op = "call"
      => IF last'.outcome = "reprfail" THEN cache' = cache
         ELSE LET K == last'.key
              IN /\ DOMAIN cache \subseteq DOMAIN cache'
                 /\ DOMAIN cache' \subseteq DOMAIN cache \cup {K, atime(K)}
                 /\ \A key \in DOMAIN cache \ {atime(K)} : cache'[key] = cache[key]
                 /\ (K \in DOMAIN cache' /\ K \notin DOMAIN cache)
                      => last'.outcome = "miss" ]_vars

CallFrameSeen ==
  /\ last.op = "call"
  /\ last.outcome = "hit"
  /\ Cardinality(Digests(cache)) >= 2
  /\ \E key \in AtimeKeys(cache) : key # atime(last.key) /\ cache[key] < now

\* C16: when the representation function raises on a positional or keyword
\* argument, the call fails, the callable is not invoked and the shelf is
\* unchanged.
KeyFailureWritesNothing ==
  [][ (last'.op = "call" /\ ReprRaises(last'.call))
      => (/\ last'.outcome = "reprfail"
          /\ last'.result = Raise
          /\ ~last'.invoked
          /\ last'.writes = <<>>
          /\ cache' = cache) ]_vars

KeyFailureWritesNothingSeen ==
  /\ last.op = "call"
  /\ last.outcome = "reprfail"
  /\ last.call.kwargs # <<>>
  /\ ~last.invoked
  /\ DOMAIN cache # {}

\* C17: clear on a shelf with no entries, with or without a positive maxage,
\* raises nothing and leaves the shelf empty.
ClearEmptyNoOp ==
  [][ (last'.op = "clear" /\ cache = EmptyShelf)
      => (last'.outcome = "ok" /\ cache' = EmptyShelf) ]_vars

ClearEmptyNoOpSeen ==
  /\ last.op = "clear"
  /\ last.maxage > 0
  /\ last.outcome = "ok"
  /\ last.deleted = {}
  /\ cache = EmptyShelf

\* C18: a call whose key is not in the shelf (so also the call that follows
\* the eviction or the full clear of its key) invokes the callable once; if
\* the callable returns, the value entry and the timestamp entry of the key
\* are created, and if it raises, the shelf is left as it was.
EvictedRecomputed ==
  [][ (last'.op = "call" /\ last'.outcome # "reprfail" /\ last'.key \notin DOMAIN cache)
      => (/\ last'.invoked
          /\ last'.outcome \in {"miss", "raised"}
          /\ last'.outcome = "miss"
               => (/\ last'.result \in Results
                   /\ last'.key \in DOMAIN cache'
                   /\ cache'[last'.key] = last'.result
                   /\ atime(last'.key) \in DOMAIN cache'
                   /\ cache'[atime(last'.key)] = now
                   /\ owner'[last'.key].by = Sig(last'.call))
          /\ last'.outcome = "raised" => cache' = cache) ]_vars

EvictedRecomputedSeen ==
  /\ last.op = "call"
  /\ last.evicted
  /\ last.outcome = "miss"
  /\ last.invoked
  /\ last.before = -1
  /\ last.key \in DOMAIN cache
  /\ atime(last.key) \in DOMAIN cache

\* C18 as stated: the call that follows the removal of its key always
\* recreates the value entry and the timestamp entry of the key.
EvictedAlwaysRecreated ==
  [][ (last'.op = "call" /\ last'.evicted)
      => (/\ last'.invoked
          /\ last'.key \in DOMAIN cache'
          /\ atime(last'.key) \in DOMAIN cache') ]_vars

\* ------------------------------------------- the operations line by line
\* Each step is one statement of wrapper or clear that reads or writes the
\* shelf; the threads of the process interleave between steps.  Thread 2 may
\* run wrapped calls and clear, thread 1 only wrapped calls.
Clearers == {2}
ThreadCalls == { c \in Workload : c.fn = "f" /\ c.kwargs = <<>> /\ ~ReprRaises(c) }

Busy(u) == thr[u].pc \notin {"idle", "done"}
\* thread t starts op while another thread is inside the other kind of
\* operation: a wrapped call and a clear overlap
Clashes(t, op) ==
  \E u \in Threads \ {t} : Busy(u) /\ {op, thr[u].op} = {"call", "clear"}

Finished(r, outcome) ==
  [Resting EXCEPT !.pc = "done", !.op = r.op, !.call = r.call, !.key = r.key,
                  !.fres = r.fres, !.result = r.result, !.invoked = r.invoked,
                  !.raced = r.raced, !.outcome = outcome]

StoreResultMut_setdefault(c, k, v) == IF k \in DOMAIN c THEN c ELSE Put(c, k, v)
StoreResult(c, k, v) == Put(c, k, v)

StampAtime(c, k, t) == Put(c, atime(k), t)

\* lines 41-46: the key is derived from the arguments, no shelf access
TCallBegin(t) ==
  /\ thr[t].pc = "idle"
  /\ \E call \in ThreadCalls :
       thr' = [thr EXCEPT ![t] = [Resting EXCEPT !.pc = "L48", !.op = "call",
                                     !.call = call, !.key = ckey(call)]]
  /\ overlap' = (overlap \/ Clashes(t, "call"))
  /\ UNCHANGED <<cache, opened, now, owner, last, kin, kout>>

\* line 48: if ckey in self.__cache
TCheck(t) ==
  /\ thr[t].pc = "L48"
  /\ thr' = [thr EXCEPT ![t].pc = IF thr[t].key \in DOMAIN cache THEN "L49" ELSE "L51"]
  /\ UNCHANGED <<cache, opened, now, owner, last, kin, kout, overlap>>

\* line 49: result = self.__cache[ckey]; KeyError when the key has gone
TRead(t) ==
  /\ thr[t].pc = "L49"
  /\ thr' = [thr EXCEPT ![t] =
               IF thr[t].key \in DOMAIN cache
               THEN [thr[t] EXCEPT !.pc = "L53", !.result = cache[thr[t].key]]
               ELSE Finished(thr[t], "KeyError")]
  /\ UNCHANGED <<cache, opened, now, owner, last, kin, kout, overlap>>

\* line 51: result = fn(*args, **kwargs)
TInvoke(t) ==
  /\ thr[t].pc = "L51"
  /\ \E fres \in Results \cup {Raise} :
       LET r == [thr[t] EXCEPT !.fres = fres, !.result = fres, !.invoked = TRUE,
                   !.raced = \E u \in Threads \ {t} :
                               /\ thr[u].op = "call"
                               /\ thr[u].key = thr[t].key
                               /\ thr[u].pc \in {"L51", "L52"}
                                    \/ (thr[u].pc = "L53" /\ thr[u].invoked)]
       IN thr' = [thr EXCEPT ![t] = IF fres = Raise THEN Finished(r, "raised")
                                    ELSE [r EXCEPT !.pc = "L52"]]
  /\ UNCHANGED <<cache, opened, now, owner, last, kin, kout, overlap>>

\* line 52: self.__cache[ckey] = result
TStore(t) ==
  /\ thr[t].pc = "L52"
  /\ cache' = StoreResult(cache, thr[t].key, thr[t].result)
  /\ owner' = Put(owner, thr[t].key,
                  [by |-> Sig(thr[t].call), v |-> thr[t].result, t |-> t])
  /\ thr' = [thr EXCEPT ![t].pc = "L53"]
  /\ UNCHANGED <<opened, now, last, kin, kout, overlap>>

\* lines 53-54: the timestamp is written and the result returned
TStamp(t) ==
  /\ thr[t].pc = "L53"
  /\ cache' = StampAtime(cache, thr[t].key, now)
  /\ thr' = [thr EXCEPT ![t] =
               Finished(thr[t], IF thr[t].invoked THEN "miss" ELSE "hit")]
  /\ UNCHANGED <<opened, now, owner, last, kin, kout, overlap>>

\* the caller has its result (or its exception) and goes on
TReturn(t) ==
  /\ thr[t].pc = "done"
  /\ thr' = [thr EXCEPT ![t] = Resting]
  /\ UNCHANGED <<cache, opened, now, owner, last, kin, kout, overlap>>

\* lines 66-68: the branch is taken and the cutoff computed from the clock
TClearBegin(t) ==
  /\ t \in Clearers
  /\ thr[t].pc = "idle"
  /\ \E maxage \in MaxAges :
       thr' = [thr EXCEPT ![t] =
                 [Resting EXCEPT !.pc = IF maxage > 0 THEN "L69" ELSE "L77",
                                 !.op = "clear", !.maxage = maxage,
                                 !.bigbang = IF maxage > 0 THEN now - maxage ELSE 0]]
  /\ overlap' = (overlap \/ Clashes(t, "clear"))
  /\ UNCHANGED <<cache, opened, now, owner, last, kin, kout>>

\* line 69: the loop takes the list of the keys the shelf has now; the keys
\* that fail the endswith test are passed over without a shelf access
TSnapshot(t) ==
  /\ thr[t].pc = "L69"
  /\ \E order \in Orders(AtimeKeys(cache)) :
       thr' = [thr EXCEPT ![t].scan = order,
                          ![t].pc = IF order = <<>> THEN "L74" ELSE "L70"]
  /\ UNCHANGED <<cache, opened, now, owner, last, kin, kout, overlap>>

\* lines 70-72 for one key of the list: its timestamp is read and compared
TScan(t) ==
  /\ thr[t].pc = "L70"
  /\ LET key == Head(thr[t].scan)
     IN thr' = [thr EXCEPT ![t] =
                  IF key \notin DOMAIN cache
                  THEN Finished(thr[t], "KeyError")
                  ELSE [thr[t] EXCEPT
                          !.outdated = @ \o Outdated(cache, <<key>>, thr[t].bigbang),
                          !.scan = Tail(@),
                          !.pc = IF Tail(thr[t].scan) = <<>> THEN "L74" ELSE "L70"]]
  /\ UNCHANGED <<cache, opened, now, owner, last, kin, kout, overlap>>

\* lines 74-75 for one key of outdated: del self.__cache[key]
TDelete(t) ==
  /\ thr[t].pc = "L74"
  /\ IF thr[t].outdated = <<>>
     THEN /\ thr' = [thr EXCEPT ![t] = Finished(thr[t], "ok")]
          /\ UNCHANGED <<cache, owner>>
     ELSE LET key == Head(thr[t].outdated)
          IN IF key \notin DOMAIN cache
             THEN /\ thr' = [thr EXCEPT ![t] = Finished(thr[t], "KeyError")]
                  /\ UNCHANGED <<cache, owner>>
             ELSE /\ cache' = Del(cache, key)
                  /\ owner' = OwnerOf(owner, cache')
                  /\ thr' = [thr EXCEPT ![t].outdated = Tail(@)]
  /\ UNCHANGED <<opened, now, last, kin, kout, overlap>>

\* line 77: self.__cache.clear()
TClearAll(t) ==
  /\ thr[t].pc = "L77"
  /\ cache' = EmptyShelf
  /\ owner' = EmptyShelf
  /\ thr' = [thr EXCEPT ![t] = Finished(thr[t], "ok")]
  /\ UNCHANGED <<opened, now, last, kin, kout, overlap>>

TTick ==
  /\ now < MaxTime
  /\ now' = now + 1
  /\ UNCHANGED <<cache, opened, owner, last, kin, kout, thr, overlap>>

\* one thread runs the operations statement by statement
NextSteps ==
  \/ TTick
  \/ \E t \in Clearers :
       \/ TCallBegin(t) \/ TCheck(t) \/ TRead(t) \/ TInvoke(t) \/ TStore(t)
       \/ TStamp(t) \/ TReturn(t)
       \/ TClearBegin(t) \/ TSnapshot(t) \/ TScan(t) \/ TDelete(t) \/ TClearAll(t)

SpecSteps == Init /\ [][NextSteps]_vars

\* the threads run the operations concurrently
NextThreads ==
  \/ TTick
  \/ \E t \in Threads :
       \/ TCallBegin(t) \/ TCheck(t) \/ TRead(t) \/ TInvoke(t) \/ TStore(t)
       \/ TStamp(t) \/ TReturn(t)
       \/ TClearBegin(t) \/ TSnapshot(t) \/ TScan(t) \/ TDelete(t) \/ TClearAll(t)

SpecThreads == Init /\ [][NextThreads]_vars

\* C15: two threads that call the wrapped callable with one uncached key can
\* both observe the miss and both invoke the callable; each of the two then
\* returns the result it computed itself, and the value left in the shelf is
\* the one that was written last.
BothMissed(t, u) ==
  /\ thr[t].pc = "done" /\ thr[t].op = "call" /\ thr[t].outcome = "miss"
  /\ thr[u].pc = "done" /\ thr[u].op = "call" /\ thr[u].outcome = "miss"
  /\ thr[t].key = thr[u].key

CheckThenWriteRace ==
  \A t \in Threads : \A u \in Threads \ {t} :
    BothMissed(t, u)
      => (/\ thr[t].invoked /\ thr[u].invoked
          /\ thr[t].result = thr[t].fres
          /\ thr[u].result = thr[u].fres
          /\ thr[t].key \in DOMAIN cache
          /\ owner[thr[t].key].t \in {t, u}
          /\ cache[thr[t].key] = thr[owner[thr[t].key].t].result)

CheckThenWriteRaceSeen ==
  /\ BothMissed(1, 2)
  /\ thr[1].raced \/ thr[2].raced
  /\ thr[1].invoked /\ thr[2].invoked
  /\ thr[1].result # thr[2].result
  /\ owner[thr[1].key].t = 1
  /\ cache[thr[1].key] = thr[1].result

\* C19: in one thread, at every point between two statements of a wrapped
\* call or of an age-based clear, no timestamp entry is in the shelf without
\* its value entry (a value entry may be there without its timestamp), and
\* no statement fails on a missing key.
StatementOrdering ==
  /\ \A key \in AtimeKeys(cache) : rsplit(key) \in DOMAIN cache
  /\ \A t \in Threads : thr[t].outcome # "KeyError"

StatementOrderingSeen ==
  /\ thr[2].op = "clear"
  /\ thr[2].pc = "L74"
  /\ thr[2].maxage > 0
  /\ thr[2].outdated # <<>>
  /\ ~endswith_atime(Head(thr[2].outdated))
  /\ Head(thr[2].outdated) \in DOMAIN cache
  /\ atime(Head(thr[2].outdated)) \notin DOMAIN cache

\* C20: as long as no wrapped call has overlapped a clear, whenever the
\* threads are between operations every key in the shelf has both its value
\* entry and its timestamp entry and no operation has failed on a missing key.
AtRest == \A t \in Threads : ~Busy(t)

PairingWhenSerialised ==
  (AtRest /\ ~overlap)
    => (/\ PairingInvariant
        /\ \A t \in Threads : thr[t].outcome # "KeyError")

PairingWhenSerialisedSeen ==
  /\ ~overlap
  /\ thr[1].pc = "done" /\ thr[1].op = "call" /\ thr[1].outcome = "hit"
  /\ thr[2].pc = "done" /\ thr[2].op = "clear" /\ thr[2].outcome = "ok"
  /\ Digests(cache) # {}
  /\ thr[1].key \notin DOMAIN cache

\* C20 as stated: whenever a wrapped call and a clear have both completed,
\* every key has both entries and neither operation failed on a missing key.
PairingUnderConcurrentClear ==
  (/\ \E t \in Threads : thr[t].pc = "done" /\ thr[t].op = "call"
   /\ \E t \in Threads : thr[t].pc = "done" /\ thr[t].op = "clear")
    => (/\ PairingInvariant
        /\ \A t \in Threads : thr[t].outcome # "KeyError")

====
